---- MODULE Spec2Model ----
(***************************************************************************)
(* Staging buffers of the NanoLog staging-buffer benchmark.                *)
(*                                                                         *)
(* Alternatives::StagingBuffer (SeparatedStagingBuffer.h) is the lock-free *)
(* single-producer/single-consumer byte ring.  It is modelled at the       *)
(* granularity of one access to a shared variable per step: the producer   *)
(* and the consumer interleave between any two accesses to producerPos,    *)
(* consumerPos, endOfRecordedSpace or storage.  The fences of the source   *)
(* (sfence before a store of producerPos, lfence before the load of        *)
(* endOfRecordedSpace and before the store of consumerPos) keep each       *)
(* thread's accesses in program order, which is what the interleaving of   *)
(* atomic steps states.                                                    *)
(*                                                                         *)
(* StagingBuffers::Basic (StagingBuffers.cc) is the mutex-protected        *)
(* baseline; every operation holds the mutex from entry to return and is   *)
(* one step.                                                               *)
(*                                                                         *)
(* Positions are byte offsets from the start of the storage (storage = 0). *)
(***************************************************************************)
EXTENDS Integers, Sequences, FiniteSets, TLC

\* NanoLogConfig::STAGING_BUFFER_SIZE, scaled down from 1<<20.
STAGING_BUFFER_SIZE == 4

\* At most this many reserveProducerSpace calls (numAllocations is capped).
MaxAllocations == 2

\* reserveSpaceInternal is called directly (non-blocking) only while
\* numTimesProducerBlocked is below this.
MaxBlocked == 1

\* Basic: at most this many bytes are pushed (bytesPushed is capped).
MaxPushed == 6

\* uint64_t arithmetic is modelled modulo WordRange (scaled from 2^64): a
\* difference that underflows shows as a value far above STAGING_BUFFER_SIZE.
WordRange == 1024

\* nullptr, as the value of a char* that is otherwise an offset >= 0.
NullPtr == -1

\* The buffer classes the benchmark instantiates runTest with.
Buffers == {"StagingBuffer", "Basic", "SignalPoll", "BasicSpinLock", "StdDeque"}

VARIABLES
    sut,                      \* the buffer class under test
    outcome,                  \* "running" | "aborted" (an assert failed) |
                              \* "undefined" (a call outside its contract
                              \* was accepted; the run is followed no further)
    \* ---- Alternatives::StagingBuffer fields
    producerPos,
    endOfRecordedSpace,
    minFreeSpace,
    numTimesProducerBlocked,
    numAllocations,
    consumerPos,
    storage,                  \* the bytes of storage[0 .. STAGING_BUFFER_SIZE-1]
    \* ---- producer thread: position and locals
    pcP,                      \* "idle" | "slow" | "setEnd" | "wrap" | "reserved" | "filled"
    nbytes,                   \* argument of the reserve in progress
    blocking,                 \* argument of reserveSpaceInternal
    cachedReadPos,            \* local of reserveSpaceInternal
    reservation,              \* pointer returned by the reserve (NullPtr: none)
    \* ---- consumer thread: position and locals
    pcC,                      \* "idle" | "peekEnd" | "peekRoll" | "checkPos"
    cachedRecordHead,         \* local of peek
    peekPtr,                  \* pointer returned by the last peek, advanced by consumes
    bytesAvailable,           \* length reported by the last peek, less what was consumed
    \* ---- StagingBuffers::Basic fields; StagingBuffers::SignalPoll and
    \* ---- StagingBuffers::BasicSpinLock have the same fields under the same
    \* ---- names
    readPos,
    writePos,
    bytesReadable,
    endOfWrittenSpace,
    bytesPushed,
    bytesPopped,
    buffer,
    pushed,                   \* return value of the last Basic::push
    \* ---- StagingBuffers::SignalPoll: the two threads of doPushesCond and
    \* ---- doConsumesCond
    popPath,                  \* history: the branch the last pop of Basic took
    datumLen,                 \* datum_len, the size of every push and pop
    pcPush,                   \* "idle" | "waiting" (in consumedSome.wait) |
                              \* "woken" (unblocked, about to re-run the loop)
    pcPop,                    \* "idle" | "waiting" (in producedSome.wait) | "woken"
    \* ---- StagingBuffers::BasicSpinLock: the flag and the threads that call
    \* ---- push, peek and pop on the one buffer
    lock,                     \* std::atomic_flag lock: TRUE when set
    pcSpin,                   \* per thread: "idle" | "spinning" (in the
                              \* test_and_set loop) | "locked" (past it)
    \* ---- StagingBuffers::StdDeque
    deque,                    \* std::deque<Element>; an element is the number
                              \* of the push that appended it, 0 for an
                              \* element no push appended
    numPushes,                \* history: pushes that returned
    numPops,                  \* history: pops that returned
    popped,                   \* history: the elements pop removed, in order
    \* ---- deletion handshake of Alternatives::StagingBuffer
    shouldDeallocate,
    canDelete,                \* return value of the last checkCanDelete
    \* ---- history
    committed,                \* bytes published (finishReservation / push), in order
    consumed,                 \* bytes the consumer read at consume / pop, in order
    live,                     \* offsets holding committed-but-unconsumed bytes
    liveAtCall,               \* Cardinality(live) when the reserve in progress was called
    freeAtCall,               \* ContiguousFree when the reserve in progress was called
    quietPeeks,               \* peeks (up to 2) that returned with no other step since
    tainted                   \* a producer step happened during the peek in progress

ringVars == <<producerPos, endOfRecordedSpace, minFreeSpace,
              numTimesProducerBlocked, numAllocations, consumerPos, storage>>
prodVars == <<pcP, nbytes, blocking, cachedReadPos, reservation>>
consVars == <<pcC, cachedRecordHead>>
peekVars == <<peekPtr, bytesAvailable>>
basicVars == <<readPos, writePos, bytesReadable, endOfWrittenSpace,
               bytesPushed, bytesPopped, buffer, pushed>>
pollVars == <<datumLen, pcPush, pcPop>>
popVars == <<popPath>>
spinVars == <<lock, pcSpin>>
dequeVars == <<deque, numPushes, numPops, popped>>
delVars == <<shouldDeallocate, canDelete>>
histVars == <<committed, consumed, live>>
callVars == <<liveAtCall, freeAtCall>>
quietVars == <<quietPeeks, tainted>>
vars == <<sut, outcome, ringVars, prodVars, consVars, peekVars, basicVars,
          popVars, pollVars, spinVars, dequeVars, delVars,
          histVars, callVars, quietVars>>

Offsets == 0 .. STAGING_BUFFER_SIZE - 1

Min(a, b) == IF a < b THEN a ELSE b

Max(a, b) == IF a < b THEN b ELSE a

\* a - b in uint64_t
USub(a, b) == (a - b) % WordRange

\* The bytes at offsets [from, from + n) of mem; a read outside the
\* allocation yields 0, the value no committed byte ever has.
ReadBytes(mem, from, n) ==
    [i \in 1 .. n |->
        IF (from + i - 1) \in Offsets THEN mem[from + i - 1] ELSE 0]

\* mem after the n bytes of the producer's stream that follow the already
\* published ones are copied to [to, to + n).  Byte j of the stream has the
\* value j, so all published bytes are distinct and none is 0.
WriteBytes(mem, to, n, published) ==
    [i \in Offsets |->
        IF to <= i /\ i < to + n THEN published + (i - to) + 1 ELSE mem[i]]

Range(from, n) == {from + i : i \in 0 .. n - 1}

\* runTest<Buffer>: the run works on one buffer class from start to end, and
\* goes on as long as no assertion has aborted it.
Testing(b) ==
    /\ sut = b /\ sut' = sut
    /\ outcome = "running" /\ outcome' = outcome

----------------------------------------------------------------------------
(* StagingBuffer::StagingBuffer *)

RingInit ==
    /\ producerPos = 0
    /\ consumerPos = 0
    /\ endOfRecordedSpace = STAGING_BUFFER_SIZE
    /\ minFreeSpace = STAGING_BUFFER_SIZE
    /\ numTimesProducerBlocked = 0
    /\ numAllocations = 0
    /\ storage = [i \in Offsets |-> 0]
    /\ pcP = "idle" /\ nbytes = 0 /\ blocking = FALSE
    /\ cachedReadPos = 0 /\ reservation = NullPtr
    /\ pcC = "idle" /\ cachedRecordHead = 0
    /\ shouldDeallocate = FALSE
    /\ canDelete = FALSE

(* Basic::Basic *)
BasicInit ==
    /\ popPath = "none"
    /\ readPos = 0
    /\ writePos = 0
    /\ bytesReadable = 0
    /\ endOfWrittenSpace = 0
    /\ bytesPushed = 0
    /\ bytesPopped = 0
    /\ buffer = [i \in Offsets |-> 0]
    /\ pushed = FALSE

\* The buffer classes whose benchmark loops push and pop datum_len bytes at a
\* time.
FixedDatum == {"SignalPoll", "BasicSpinLock", "StdDeque"}

(* SignalPoll::SignalPoll (the fields it shares with Basic are set as in
   BasicInit) and the datum size the benchmark runs with *)
PollInit ==
    /\ datumLen \in (IF sut \in FixedDatum
                       THEN 1 .. STAGING_BUFFER_SIZE - 1 ELSE {0})
    /\ pcPush = "idle"
    /\ pcPop = "idle"

\* The threads runTest starts on one shared buffer: the pusherMain threads
\* and the thread that runs the consume loop.
Pushers == {"pusher0", "pusher1"}

Poppers == {"consumer"}

SpinThreads == Pushers \cup Poppers

(* BasicSpinLock::BasicSpinLock (the fields it shares with Basic are set as
   in BasicInit) *)
SpinInit ==
    /\ lock = FALSE
    /\ pcSpin = [t \in SpinThreads |-> "idle"]

\* "NanoLogConfig::STAGING_BUFFER_SIZE/bytesPerLog", in int arithmetic
DequeCapacity == STAGING_BUFFER_SIZE \div datumLen

(* StdDeque::StdDeque: "deque.resize(STAGING_BUFFER_SIZE/bytesPerLog);"
   appends that many value-initialized elements to the empty deque *)
DequeInit ==
    /\ deque = (IF sut = "StdDeque"
                  THEN [i \in 1 .. DequeCapacity |-> 0] ELSE <<>>)
    /\ numPushes = 0
    /\ numPops = 0
    /\ popped = <<>>

Init ==
    /\ sut \in Buffers
    /\ outcome = "running"
    /\ RingInit
    /\ BasicInit
    /\ PollInit
    /\ SpinInit
    /\ DequeInit
    /\ peekPtr = 0 /\ bytesAvailable = 0
    /\ committed = <<>> /\ consumed = <<>> /\ live = {}
    /\ liveAtCall = 0 /\ freeAtCall = 0
    /\ quietPeeks = 0 /\ tainted = FALSE

----------------------------------------------------------------------------
(* Producer side of Alternatives::StagingBuffer *)

\* A producer step ends the quiet period after a peek and marks a peek in
\* progress as overlapped by the producer.
ProducerStepped ==
    /\ quietPeeks' = 0
    /\ tainted' = (pcC # "idle")

\* The largest contiguous region a reserve can hand out with the positions
\* as they are: the tail [producerPos, end) or, after a wrap, the head
\* [storage, consumerPos); [producerPos, consumerPos) when the consumer is
\* ahead.
ContiguousFree ==
    IF consumerPos <= producerPos
      THEN Max(STAGING_BUFFER_SIZE - producerPos, consumerPos)
      ELSE consumerPos - producerPos

\* Mutant: "<=" for "<" on the fast path.
FastPathFits_OrEqual(n) == n <= minFreeSpace

\* Mutant: the fast path wants one byte more than it needs.
FastPathFits_OneToSpare(n) == n + 1 < minFreeSpace

\* "if (nbytes < minFreeSpace)" of reserveProducerSpace
FastPathFits(n) == n < minFreeSpace

\* Mutant: ">=" for ">" when the tail is measured.
TailFits_OrEqual(n) == STAGING_BUFFER_SIZE - producerPos >= n

\* Mutant: one byte more than needed is asked of the tail.
TailFits_OneToSpare(n) == STAGING_BUFFER_SIZE - producerPos > n + 1

\* "if (minFreeSpace > nbytes) break;" with minFreeSpace = endOfBuffer -
\* producerPos
TailFits(n) == STAGING_BUFFER_SIZE - producerPos > n

\* Mutant: the roll-over is not held back while the consumer is at storage.
MayWrap_Always(readPosSeen) == TRUE

\* Mutant: the roll-over is held back when the consumer is at producerPos
\* and not when it is at storage.
MayWrap_UnlessAtProducer(readPosSeen) == readPosSeen # producerPos

\* "if (cachedReadPos != storage)"
MayWrap(readPosSeen) == readPosSeen # 0

\* Mutant: the free space is computed from producerPos as it was before
\* the roll-over.
SpaceAfterWrap_StalePos(readPosSeen) == USub(readPosSeen, producerPos)

\* Mutant: after the roll-over the whole storage is taken to be free.
SpaceAfterWrap_WholeStorage(readPosSeen) == STAGING_BUFFER_SIZE

\* "minFreeSpace = cachedReadPos - producerPos;" after "producerPos = storage;"
SpaceAfterWrap(readPosSeen) == USub(readPosSeen, 0)

\* Mutant: a non-blocking reserve returns nullptr at the end of its first
\* pass, whatever space the pass found.
GivesUp_AfterOnePass(minFree) == ~blocking

\* "if (!blocking && minFreeSpace <= nbytes) return nullptr;"
GivesUp(minFree) == ~blocking /\ minFree <= nbytes

\* reserveSpaceInternal returns ptr.
ReserveReturn(ptr) ==
    /\ reservation' = ptr
    /\ cachedReadPos' = 0
    /\ IF ptr = NullPtr
         THEN /\ pcP' = "idle" /\ nbytes' = 0 /\ blocking' = FALSE
              /\ liveAtCall' = 0 /\ freeAtCall' = 0
         ELSE /\ pcP' = "reserved"
              /\ UNCHANGED <<nbytes, blocking, callVars>>

\* Exit of the while loop of reserveSpaceInternal: "++numTimesProducerBlocked;
\* return producerPos;"
LoopExit(minFree) ==
    /\ minFreeSpace' = minFree
    /\ numTimesProducerBlocked' = numTimesProducerBlocked + 1
    /\ ReserveReturn(producerPos)

\* The end of one iteration of the loop: return nullptr when not blocking
\* and still short of space, else back to the loop condition.
EndOfIteration(minFree) ==
    /\ minFreeSpace' = minFree
    /\ UNCHANGED numTimesProducerBlocked
    /\ IF GivesUp(minFree)
         THEN ReserveReturn(NullPtr)
         ELSE /\ pcP' = "slow"
              /\ UNCHANGED <<nbytes, blocking, reservation, callVars>>

\* reserveProducerSpace(n): the fast path, or entry into the slow path.
ReserveProducerSpace(n) ==
    /\ Testing("StagingBuffer")
    /\ pcP = "idle"
    /\ ~shouldDeallocate
    /\ numAllocations < MaxAllocations
    /\ numAllocations' = numAllocations + 1
    /\ nbytes' = n
    /\ blocking' = TRUE
    /\ IF FastPathFits(n)
         THEN /\ reservation' = producerPos
              /\ pcP' = "reserved"
         ELSE /\ reservation' = NullPtr
              /\ pcP' = "slow"
    /\ ProducerStepped
    /\ UNCHANGED <<spinVars, dequeVars, popPath, pollVars, delVars, producerPos, endOfRecordedSpace, minFreeSpace,
                   numTimesProducerBlocked, consumerPos, storage,
                   cachedReadPos, consVars, peekVars, basicVars, histVars,
                   callVars>>

\* reserveSpaceInternal(n) called directly, blocking = false (its default).
ReserveSpaceInternal(n) ==
    /\ Testing("StagingBuffer")
    /\ pcP = "idle"
    /\ ~shouldDeallocate
    /\ numTimesProducerBlocked < MaxBlocked
    /\ nbytes' = n
    /\ blocking' = FALSE
    /\ reservation' = NullPtr
    /\ pcP' = "slow"
    /\ liveAtCall' = Cardinality(live)
    /\ freeAtCall' = ContiguousFree
    /\ ProducerStepped
    /\ UNCHANGED <<spinVars, dequeVars, popPath, pollVars, delVars, ringVars, cachedReadPos, consVars, peekVars, basicVars,
                   histVars>>

\* The loop condition and, when it holds, the load of consumerPos and the
\* producer-private computation up to the next access to a shared variable.
SlowLoop ==
    /\ Testing("StagingBuffer")
    /\ pcP = "slow"
    /\ IF minFreeSpace > nbytes
         THEN LoopExit(minFreeSpace)
         ELSE IF consumerPos <= producerPos
           THEN IF TailFits(nbytes)
                  THEN LoopExit(STAGING_BUFFER_SIZE - producerPos)
                  ELSE /\ minFreeSpace' = STAGING_BUFFER_SIZE - producerPos
                       /\ cachedReadPos' = consumerPos
                       /\ pcP' = "setEnd"
                       /\ UNCHANGED <<reservation, numTimesProducerBlocked,
                                      nbytes, blocking, callVars>>
           ELSE /\ EndOfIteration(consumerPos - producerPos)
                /\ IF GivesUp(consumerPos - producerPos)
                     THEN TRUE
                     ELSE cachedReadPos' = 0
    /\ ProducerStepped
    /\ UNCHANGED <<spinVars, dequeVars, popPath, pollVars, delVars, producerPos, endOfRecordedSpace, numAllocations, consumerPos,
                   storage, consVars, peekVars, basicVars, histVars>>

\* Mutant: the end marker is put where the consumer was seen, not where the
\* producer stands.
EndMarker_AtReadPosSeen == cachedReadPos

\* Mutant: the end marker is put back at the end of the storage.
EndMarker_EndOfBuffer == STAGING_BUFFER_SIZE

\* "endOfRecordedSpace = producerPos;"
EndMarker == producerPos

\* "endOfRecordedSpace = producerPos;" and the test of cachedReadPos.
SetEndOfRecordedSpace ==
    /\ Testing("StagingBuffer")
    /\ pcP = "setEnd"
    /\ endOfRecordedSpace' = EndMarker
    /\ IF MayWrap(cachedReadPos)
         THEN /\ pcP' = "wrap"
              /\ UNCHANGED <<minFreeSpace, reservation, numTimesProducerBlocked,
                             nbytes, blocking, cachedReadPos, callVars>>
         ELSE /\ EndOfIteration(minFreeSpace)
              /\ IF GivesUp(minFreeSpace) THEN TRUE ELSE cachedReadPos' = 0
    /\ ProducerStepped
    /\ UNCHANGED <<spinVars, dequeVars, popPath, pollVars, delVars, producerPos, numAllocations, consumerPos, storage,
                   consVars, peekVars, basicVars, histVars>>

\* "producerPos = storage; minFreeSpace = cachedReadPos - producerPos;"
WrapProducer ==
    /\ Testing("StagingBuffer")
    /\ pcP = "wrap"
    /\ producerPos' = 0
    /\ EndOfIteration(SpaceAfterWrap(cachedReadPos))
    /\ IF GivesUp(SpaceAfterWrap(cachedReadPos))
         THEN TRUE ELSE cachedReadPos' = 0
    /\ ProducerStepped
    /\ UNCHANGED <<spinVars, dequeVars, popPath, pollVars, delVars, endOfRecordedSpace, numAllocations, consumerPos, storage,
                   consVars, peekVars, basicVars, histVars>>

\* The caller fills the reservation (std::memcpy(pos, datum, datum_len)).
FillReservation ==
    /\ Testing("StagingBuffer")
    /\ pcP = "reserved"
    /\ storage' = WriteBytes(storage, reservation, nbytes, Len(committed))
    /\ pcP' = "filled"
    /\ ProducerStepped
    /\ UNCHANGED <<spinVars, dequeVars, popPath, pollVars, delVars, producerPos, endOfRecordedSpace, minFreeSpace,
                   numTimesProducerBlocked, numAllocations, consumerPos,
                   nbytes, blocking, cachedReadPos, reservation, consVars,
                   peekVars, basicVars, histVars, callVars>>

\* "producerPos += nbytes;"
CommitTo(m) == producerPos + m

\* finishReservation(m), m not larger than the reserved nbytes.
FinishReservation(m) ==
    /\ Testing("StagingBuffer")
    /\ pcP = "filled"
    /\ minFreeSpace' = USub(minFreeSpace, m)
    /\ producerPos' = CommitTo(m)
    /\ committed' = committed \o ReadBytes(storage, producerPos, m)
    /\ live' = live \cup Range(producerPos, m)
    /\ pcP' = "idle" /\ nbytes' = 0 /\ blocking' = FALSE
    /\ reservation' = NullPtr
    /\ liveAtCall' = 0 /\ freeAtCall' = 0
    /\ ProducerStepped
    /\ UNCHANGED <<spinVars, dequeVars, popPath, pollVars, delVars, endOfRecordedSpace, numTimesProducerBlocked, numAllocations,
                   consumerPos, storage, cachedReadPos, consVars, peekVars,
                   basicVars, consumed>>

\* "assert(nbytes < minFreeSpace);
\*  assert(producerPos + nbytes < storage + STAGING_BUFFER_SIZE);"
FinishAsserts(m) ==
    /\ m < minFreeSpace
    /\ producerPos + m < STAGING_BUFFER_SIZE

\* finishReservation(m) with m larger than the reserved nbytes, in a build
\* with assertions: abort when one of them fails, else the same stores as for
\* any m.
FinishReservationBeyond(m) ==
    /\ sut = "StagingBuffer" /\ sut' = sut
    /\ outcome = "running"
    /\ pcP = "filled"
    /\ m > nbytes
    /\ IF FinishAsserts(m)
         THEN /\ outcome' = "undefined"
              /\ minFreeSpace' = USub(minFreeSpace, m)
              /\ producerPos' = CommitTo(m)
              /\ committed' = committed \o ReadBytes(storage, producerPos, m)
              /\ live' = live \cup Range(producerPos, m)
              /\ pcP' = "idle" /\ nbytes' = 0 /\ blocking' = FALSE
              /\ reservation' = NullPtr
              /\ liveAtCall' = 0 /\ freeAtCall' = 0
              /\ ProducerStepped
         ELSE /\ outcome' = "aborted"
              /\ UNCHANGED <<minFreeSpace, producerPos, committed, live,
                             prodVars, callVars, quietVars>>
    /\ UNCHANGED <<spinVars, dequeVars, popPath, pollVars, delVars, endOfRecordedSpace, numTimesProducerBlocked,
                   numAllocations, consumerPos, storage, cachedReadPos,
                   consVars, peekVars, basicVars, consumed>>

\* The thread that owns the StagingBuffer is destructed: it logs no more and
\* sets shouldDeallocate.  It exits between two operations; a reservation it
\* still held leaves the ring as finishReservation(0) does.
MarkForDeletion ==
    /\ Testing("StagingBuffer")
    /\ pcP = "idle"
    /\ ~shouldDeallocate
    /\ shouldDeallocate' = TRUE
    /\ UNCHANGED <<spinVars, dequeVars, popPath, pollVars, canDelete, ringVars, prodVars, consVars, peekVars,
                   basicVars, histVars, callVars, quietVars>>

----------------------------------------------------------------------------
(* Consumer side of Alternatives::StagingBuffer *)

\* peek returns (ptr, len).
PeekReturn(ptr, len) ==
    /\ peekPtr' = ptr
    /\ bytesAvailable' = len
    /\ pcC' = "idle"
    /\ cachedRecordHead' = 0
    /\ quietPeeks' = IF tainted THEN 0 ELSE Min(quietPeeks + 1, 2)
    /\ tainted' = FALSE

\* Mutant: the tail is read up to the end of the storage, not up to the
\* end marker.
TailRegion_IgnoresEndMarker == USub(STAGING_BUFFER_SIZE, consumerPos)

\* "*bytesAvailable = endOfRecordedSpace - consumerPos;"
TailRegion == USub(endOfRecordedSpace, consumerPos)

\* Mutant: the length is not computed again after the roll-over.
HeadRegion_StaleLength(head) == USub(endOfRecordedSpace, consumerPos)

\* Mutant: the length is taken from consumerPos as it was before the
\* roll-over.
HeadRegion_FromOldPos(head) == USub(head, consumerPos)

\* "*bytesAvailable = cachedRecordHead - consumerPos;" after the roll-over
HeadRegion(head) == USub(head, 0)

\* Mutant: "<=" for "<" in the test for a wrapped producer.
ProducerWrapped_OrEqual(head) == head <= consumerPos

\* "if (cachedRecordHead < consumerPos)"
ProducerWrapped(head) == head < consumerPos

\* "char *cachedRecordHead = producerPos;" and the comparison with
\* consumerPos (which only this thread writes).
PeekStart ==
    /\ Testing("StagingBuffer")
    /\ pcC = "idle"
    /\ IF ProducerWrapped(producerPos)
         THEN /\ cachedRecordHead' = producerPos
              /\ pcC' = "peekEnd"
              /\ UNCHANGED <<peekVars, quietVars>>
         ELSE PeekReturn(consumerPos, USub(producerPos, consumerPos))
    /\ UNCHANGED <<spinVars, dequeVars, popPath, pollVars, delVars, ringVars, prodVars, basicVars, histVars, callVars>>

\* "*bytesAvailable = endOfRecordedSpace - consumerPos;
\*  if (*bytesAvailable > 0) return consumerPos;"
PeekEnd ==
    /\ Testing("StagingBuffer")
    /\ pcC = "peekEnd"
    /\ IF TailRegion > 0
         THEN PeekReturn(consumerPos, TailRegion)
         ELSE /\ pcC' = "peekRoll"
              /\ UNCHANGED <<cachedRecordHead, peekVars, quietVars>>
    /\ UNCHANGED <<spinVars, dequeVars, popPath, pollVars, delVars, ringVars, prodVars, basicVars, histVars, callVars>>

\* "consumerPos = storage;" and the return of the head region.
PeekRoll ==
    /\ Testing("StagingBuffer")
    /\ pcC = "peekRoll"
    /\ consumerPos' = 0
    /\ PeekReturn(0, HeadRegion(cachedRecordHead))
    /\ UNCHANGED <<spinVars, dequeVars, popPath, pollVars, delVars, producerPos, endOfRecordedSpace, minFreeSpace,
                   numTimesProducerBlocked, numAllocations, storage, prodVars,
                   basicVars, histVars, callVars>>

\* Mutant: consume leaves consumerPos where it was.
ConsumeTo_Stuck(k) == consumerPos

\* "consumerPos += nbytes;"
ConsumeTo(k) == consumerPos + k

\* consume(k), k not larger than what the last peek reported and is left of
\* it.  The consumer has read the k bytes at the pointer peek gave it.
Consume(k) ==
    /\ Testing("StagingBuffer")
    /\ pcC = "idle"
    /\ consumerPos' = ConsumeTo(k)
    /\ consumed' = consumed \o ReadBytes(storage, peekPtr, k)
    /\ live' = live \ Range(consumerPos, k)
    /\ peekPtr' = peekPtr + k
    /\ bytesAvailable' = bytesAvailable - k
    /\ quietPeeks' = 0
    /\ UNCHANGED <<spinVars, dequeVars, popPath, pollVars, delVars, producerPos, endOfRecordedSpace, minFreeSpace,
                   numTimesProducerBlocked, numAllocations, storage, prodVars,
                   consVars, basicVars, committed, callVars, tainted>>

\* consume(k) with k larger than what is left of the last peek: consume has
\* no assertion, the store is done as for any k.
ConsumeBeyond(k) ==
    /\ sut = "StagingBuffer" /\ sut' = sut
    /\ outcome = "running"
    /\ pcC = "idle"
    /\ k > bytesAvailable
    /\ outcome' = "undefined"
    /\ consumerPos' = ConsumeTo(k)
    /\ consumed' = consumed \o ReadBytes(storage, peekPtr, k)
    /\ live' = live \ Range(consumerPos, k)
    /\ peekPtr' = peekPtr + k
    /\ bytesAvailable' = 0
    /\ quietPeeks' = 0
    /\ UNCHANGED <<spinVars, dequeVars, popPath, pollVars, delVars, producerPos, endOfRecordedSpace, minFreeSpace,
                   numTimesProducerBlocked, numAllocations, storage, prodVars,
                   consVars, basicVars, committed, callVars, tainted>>

\* Mutant: the positions are not compared.
CheckCanDelete_FlagOnly == shouldDeallocate

\* Mutant: consumerPos is compared with the end marker.
CheckCanDelete_EndMarker ==
    shouldDeallocate /\ consumerPos = endOfRecordedSpace

\* "return shouldDeallocate && consumerPos == producerPos;"
CheckCanDelete == shouldDeallocate /\ consumerPos = producerPos

\* checkCanDelete, called by the consumer thread: the load of
\* shouldDeallocate; with it false, && yields false at once.
CheckFlag ==
    /\ Testing("StagingBuffer")
    /\ pcC = "idle"
    /\ IF shouldDeallocate
         THEN pcC' = "checkPos" /\ UNCHANGED canDelete
         ELSE pcC' = pcC /\ canDelete' = FALSE
    /\ UNCHANGED <<spinVars, dequeVars, popPath, pollVars, shouldDeallocate, ringVars, prodVars, cachedRecordHead,
                   peekVars, basicVars, histVars, callVars, quietVars>>

\* checkCanDelete: the load of producerPos and the comparison.
CheckPositions ==
    /\ Testing("StagingBuffer")
    /\ pcC = "checkPos"
    /\ canDelete' = CheckCanDelete
    /\ pcC' = "idle"
    /\ UNCHANGED <<spinVars, dequeVars, popPath, pollVars, shouldDeallocate, ringVars, prodVars, cachedRecordHead,
                   peekVars, basicVars, histVars, callVars, quietVars>>

----------------------------------------------------------------------------
(* StagingBuffers::Basic: push, peek and pop, each under the mutex *)

\* "if (readPos > writePos && readPos - writePos <= nbytes) return false;"
NoRoomBeforeReader(n) == readPos > writePos /\ readPos - writePos <= n

\* Mutant: the tail is never found too small.
MustRollOver_Never(n) == FALSE

\* "if (readPos <= writePos && STAGING_BUFFER_SIZE - writePos < nbytes)"
MustRollOver(n) == readPos <= writePos /\ STAGING_BUFFER_SIZE - writePos < n

NoRoomAfterRollOver_Strict(n) == readPos < n

\* "if (readPos <= nbytes) return false;" once writePos is back at 0
NoRoomAfterRollOver(n) == readPos <= n

\* Mutant: a refused push leaves writePos where it was.
RefusedWritePos_Unchanged(n) == writePos

\* writePos when push(n) returns false: "writePos = 0;" has run if the
\* roll-over branch got past "if (readPos == 0) return false;"
RefusedWritePos(n) ==
    IF MustRollOver(n) /\ readPos # 0 THEN 0 ELSE writePos

\* The copy and the bookkeeping at the end of a successful push.
BasicStore(at, n) ==
    /\ buffer' = WriteBytes(buffer, at, n, bytesPushed)
    /\ bytesPushed' = bytesPushed + n
    /\ bytesReadable' = bytesReadable + n
    /\ writePos' = at + n
    /\ pushed' = TRUE

BasicPush(n) ==
    /\ Testing("Basic")
    /\ bytesPushed < MaxPushed
    /\ IF NoRoomBeforeReader(n)
         THEN /\ pushed' = FALSE
              /\ UNCHANGED <<writePos, endOfWrittenSpace, buffer, bytesPushed,
                             bytesReadable>>
         ELSE IF MustRollOver(n)
           THEN /\ endOfWrittenSpace' = writePos
                /\ IF readPos = 0
                     THEN /\ pushed' = FALSE
                          /\ UNCHANGED <<writePos, buffer, bytesPushed,
                                         bytesReadable>>
                     ELSE IF NoRoomAfterRollOver(n)
                       THEN /\ writePos' = RefusedWritePos(n)
                            /\ pushed' = FALSE
                            /\ UNCHANGED <<buffer, bytesPushed, bytesReadable>>
                       ELSE BasicStore(0, n)
           ELSE /\ BasicStore(writePos, n)
                /\ UNCHANGED endOfWrittenSpace
    /\ quietPeeks' = 0
    /\ UNCHANGED <<spinVars, dequeVars, popPath, pollVars, delVars, readPos, bytesPopped, ringVars, prodVars, consVars,
                   peekVars, histVars, callVars, tainted>>

\* The position peek leaves readPos at: reset to 0 when the reader is ahead
\* of the writer and has reached endOfWrittenSpace.
BasicPeekPos ==
    IF readPos <= writePos THEN readPos
    ELSE IF endOfWrittenSpace - readPos = 0 THEN 0 ELSE readPos

\* Mutant: peek reports every readable byte, contiguous or not.
BasicPeekAvail_AllReadable == bytesReadable

BasicPeekAvail ==
    IF readPos <= writePos THEN writePos - readPos
    ELSE IF endOfWrittenSpace - readPos = 0 THEN writePos - 0
    ELSE endOfWrittenSpace - readPos

BasicPeek ==
    /\ Testing("Basic")
    /\ readPos' = BasicPeekPos
    /\ bytesAvailable' = BasicPeekAvail
    /\ peekPtr' = BasicPeekPos
    /\ quietPeeks' = Min(quietPeeks + 1, 2)
    /\ UNCHANGED <<spinVars, dequeVars, popPath, pollVars, delVars, writePos, bytesReadable, endOfWrittenSpace, bytesPushed,
                   bytesPopped, buffer, pushed, ringVars, prodVars, consVars,
                   histVars, callVars, tainted>>

\* The branch pop(n) takes to move readPos
BasicPopPath(n) ==
    IF readPos < writePos THEN "front"
    ELSE IF endOfWrittenSpace - readPos >= n THEN "firstHalf"
    ELSE IF endOfWrittenSpace - readPos = 0 THEN "rollOver"
    ELSE "straddle"

BasicPopPos_NoWrap(n) == readPos + n

\* readPos after pop(n)
BasicPopPos(n) ==
    IF readPos < writePos THEN readPos + n
    ELSE IF endOfWrittenSpace - readPos >= n THEN readPos + n
    ELSE IF endOfWrittenSpace - readPos = 0 THEN 0
    ELSE n - (endOfWrittenSpace - readPos)

\* pop(n) with the assertion bytesReadable >= nbytes holding.
BasicPop(n) ==
    /\ Testing("Basic")
    /\ bytesReadable >= n
    /\ bytesReadable' = bytesReadable - n
    /\ bytesPopped' = bytesPopped + n
    /\ readPos' = BasicPopPos(n)
    /\ popPath' = BasicPopPath(n)
    /\ quietPeeks' = 0
    /\ UNCHANGED <<spinVars, dequeVars, pollVars, delVars, writePos, endOfWrittenSpace, bytesPushed, buffer, pushed,
                   ringVars, prodVars, consVars, peekVars, histVars, callVars,
                   tainted>>

\* pop(n) with "assert(bytesReadable >= nbytes);" failing.
BasicPopBeyond(n) ==
    /\ sut = "Basic" /\ sut' = sut
    /\ outcome = "running"
    /\ bytesReadable < n
    /\ outcome' = "aborted"
    /\ UNCHANGED <<spinVars, dequeVars, popPath, pollVars, delVars, basicVars, ringVars, prodVars, consVars, peekVars,
                   histVars, callVars, quietVars>>

----------------------------------------------------------------------------
(* StagingBuffers::SignalPoll: push and pop hold the mutex except while they
   wait on a condition variable, so each runs in one step from its entry or
   its wake-up to its return or its next wait *)

\* "if (readPos > writePos && readPos - writePos <= nbytes)"
PollNoRoomBeforeReader(n) == readPos > writePos /\ readPos - writePos <= n

\* "else if (readPos <= writePos && STAGING_BUFFER_SIZE - writePos < nbytes)"
PollMustRollOver(n) ==
    readPos <= writePos /\ STAGING_BUFFER_SIZE - writePos < n

\* hasSpace at the end of one pass of the loop of push
PollHasSpace(n) ==
    IF PollNoRoomBeforeReader(n) THEN FALSE
    ELSE IF PollMustRollOver(n) THEN readPos # 0 /\ readPos > n
    ELSE TRUE

\* writePos at the end of one pass: "writePos = 0;" whenever the roll-over
\* branch is taken
PollWritePos(n) ==
    IF ~PollNoRoomBeforeReader(n) /\ PollMustRollOver(n) THEN 0 ELSE writePos

\* One pass of the loop of push(n), then the copy and the return, or
\* consumedSome.wait.
PollPushPass(n) ==
    /\ endOfWrittenSpace' =
          IF ~PollNoRoomBeforeReader(n) /\ PollMustRollOver(n)
            THEN writePos ELSE endOfWrittenSpace
    /\ IF PollHasSpace(n)
         THEN /\ pcPop' = IF pcPop = "waiting" THEN "woken" ELSE pcPop
              /\ buffer' = WriteBytes(buffer, PollWritePos(n), n, bytesPushed)
              /\ bytesPushed' = bytesPushed + n
              /\ bytesReadable' = bytesReadable + n
              /\ writePos' = PollWritePos(n) + n
              /\ pushed' = TRUE
              /\ pcPush' = "idle"
         ELSE /\ writePos' = PollWritePos(n)
              /\ pcPush' = "waiting"
              /\ UNCHANGED <<pcPop, buffer, bytesPushed, bytesReadable, pushed>>
    /\ UNCHANGED <<readPos, bytesPopped, datumLen>>

\* doPushesCond calls push(datum, datum_len), or a woken push re-runs its
\* loop.
PollPush ==
    /\ Testing("SignalPoll")
    /\ \/ pcPush = "idle" /\ bytesPushed + datumLen <= MaxPushed
       \/ pcPush = "woken"
    /\ PollPushPass(datumLen)
    /\ UNCHANGED <<spinVars, dequeVars, popPath, ringVars, prodVars, consVars, peekVars, delVars,
                   histVars,
                   callVars, quietVars>>

\* SignalPoll::peek: readPos and bytesAvail as it leaves them
PollPeekPos ==
    IF readPos <= writePos THEN readPos
    ELSE IF endOfWrittenSpace - readPos = 0 THEN 0 ELSE readPos

PollPeekAvail ==
    IF readPos <= writePos THEN writePos - readPos
    ELSE IF endOfWrittenSpace - readPos = 0 THEN writePos - 0
    ELSE endOfWrittenSpace - readPos

\* readPos after the stores of pop(n) that follow the loop, from the readPos
\* that peek left
PollPopPos(n) ==
    IF PollPeekPos < writePos THEN PollPeekPos + n
    ELSE IF endOfWrittenSpace - PollPeekPos >= n THEN PollPeekPos + n
    ELSE IF endOfWrittenSpace - PollPeekPos = 0 THEN 0
    ELSE n - (endOfWrittenSpace - PollPeekPos)

\* One pass of the loop of pop(n), then the stores, consumedSome.notify_all
\* and the return, or producedSome.wait.
PollPopPass(n) ==
    /\ IF PollPeekAvail >= n
         THEN /\ bytesReadable' = bytesReadable - n
              /\ bytesPopped' = bytesPopped + n
              /\ readPos' = PollPopPos(n)
              /\ pcPush' = IF pcPush = "waiting" THEN "woken" ELSE pcPush
              /\ pcPop' = "idle"
         ELSE /\ readPos' = PollPeekPos
              /\ pcPop' = "waiting"
              /\ UNCHANGED <<bytesReadable, bytesPopped, pcPush>>
    /\ UNCHANGED <<writePos, endOfWrittenSpace, bytesPushed, buffer, pushed,
                   datumLen>>

\* doConsumesCond calls pop(datum_len), as often as doPushesCond pushes, or
\* a woken pop re-runs its loop.
PollPop ==
    /\ Testing("SignalPoll")
    /\ \/ pcPop = "idle" /\ bytesPopped + datumLen <= MaxPushed
       \/ pcPop = "woken"
    /\ PollPopPass(datumLen)
    /\ UNCHANGED <<spinVars, dequeVars, popPath, ringVars, prodVars, consVars, peekVars, delVars,
                   histVars,
                   callVars, quietVars>>

\* std::condition_variable::wait may return without a notification.
PollSpuriousWakeup ==
    /\ Testing("SignalPoll")
    /\ \/ pcPush = "waiting" /\ pcPush' = "woken" /\ pcPop' = pcPop
       \/ pcPop = "waiting" /\ pcPop' = "woken" /\ pcPush' = pcPush
    /\ UNCHANGED <<spinVars, dequeVars, popPath, datumLen, basicVars, ringVars, prodVars, consVars, peekVars,
                   delVars, histVars, callVars, quietVars>>

----------------------------------------------------------------------------

(* StagingBuffers::BasicSpinLock: several pusherMain threads and the consumer
   thread call push, peek and pop on one buffer.  A thread takes one step to
   enter an operation, one for the test_and_set that finds the flag clear,
   and one for the code between that and the return, which ends with
   lock.clear.  A test_and_set that finds the flag set leaves it set and
   changes nothing: the thread stays "spinning". *)

\* The value lock.test_and_set returns: the flag as it was.
TestAndSet == lock

\* The return paths of push ("noRoom", "readerAtStart" and "noRoomAtStart"
\* return false), of peek and of pop.
SpinReturns ==
    {"noRoom", "readerAtStart", "noRoomAtStart", "stored", "peek", "pop"}

\* Mutant: the return inside the roll-over branch that follows
\* "if (readPos == 0)" leaves the flag set.
ClearsLock_NotWhenReaderAtStart(path) ==
    path \in SpinReturns \ {"readerAtStart"}

\* "lock.clear(std::memory_order_release);" stands before every return.
ClearsLock(path) == path \in SpinReturns

\* The flag when the operation returns by path.
LockAtReturn(path) == IF ClearsLock(path) THEN FALSE ELSE lock

\* The thread returns from its operation by path.
SpinReturn(t, path) ==
    /\ lock' = LockAtReturn(path)
    /\ pcSpin' = [pcSpin EXCEPT ![t] = "idle"]

\* A thread enters push, peek or pop.
SpinCall(t) ==
    /\ Testing("BasicSpinLock")
    /\ pcSpin[t] = "idle"
    /\ t \in Pushers => bytesPushed + datumLen <= MaxPushed
    /\ pcSpin' = [pcSpin EXCEPT ![t] = "spinning"]
    /\ UNCHANGED <<lock, dequeVars, popPath, pollVars, delVars, basicVars,
                   ringVars, prodVars, consVars, peekVars, histVars, callVars,
                   quietVars>>

\* "while (lock.test_and_set(std::memory_order_acquire))" ends: the flag was
\* clear and is now set.
SpinAcquire(t) ==
    /\ Testing("BasicSpinLock")
    /\ pcSpin[t] = "spinning"
    /\ ~TestAndSet
    /\ lock' = TRUE
    /\ pcSpin' = [pcSpin EXCEPT ![t] = "locked"]
    /\ UNCHANGED <<dequeVars, popPath, pollVars, delVars, basicVars,
                   ringVars, prodVars, consVars, peekVars, histVars, callVars,
                   quietVars>>

\* The return path push(n) takes.
SpinPushPath(n) ==
    IF readPos > writePos /\ readPos - writePos <= n THEN "noRoom"
    ELSE IF readPos <= writePos /\ STAGING_BUFFER_SIZE - writePos < n
      THEN IF readPos = 0 THEN "readerAtStart"
           ELSE IF readPos <= n THEN "noRoomAtStart"
           ELSE "stored"
    ELSE "stored"

\* "if (readPos <= writePos && STAGING_BUFFER_SIZE - writePos < nbytes)"
SpinRollsOver(n) ==
    /\ ~(readPos > writePos /\ readPos - writePos <= n)
    /\ readPos <= writePos
    /\ STAGING_BUFFER_SIZE - writePos < n

\* writePos once the roll-over branch is behind: "writePos = 0;" unless the
\* branch returned at "if (readPos == 0)".
SpinWritePos(n) ==
    IF SpinRollsOver(n) /\ readPos # 0 THEN 0 ELSE writePos

\* BasicSpinLock::push from the end of the spin loop to the return.
SpinPush(t) ==
    /\ Testing("BasicSpinLock")
    /\ t \in Pushers
    /\ pcSpin[t] = "locked"
    /\ endOfWrittenSpace' =
          IF SpinRollsOver(datumLen) THEN writePos ELSE endOfWrittenSpace
    /\ IF SpinPushPath(datumLen) = "stored"
         THEN /\ buffer' = WriteBytes(buffer, SpinWritePos(datumLen),
                                      datumLen, bytesPushed)
              /\ bytesPushed' = bytesPushed + datumLen
              /\ bytesReadable' = bytesReadable + datumLen
              /\ writePos' = SpinWritePos(datumLen) + datumLen
              /\ pushed' = TRUE
         ELSE /\ writePos' = SpinWritePos(datumLen)
              /\ pushed' = FALSE
              /\ UNCHANGED <<buffer, bytesPushed, bytesReadable>>
    /\ SpinReturn(t, SpinPushPath(datumLen))
    /\ UNCHANGED <<dequeVars, popPath, pollVars, delVars, readPos,
                   bytesPopped, ringVars, prodVars, consVars, peekVars,
                   histVars, callVars, quietVars>>

\* readPos and bytesAvail as BasicSpinLock::peek leaves them
SpinPeekPos ==
    IF readPos <= writePos THEN readPos
    ELSE IF endOfWrittenSpace - readPos = 0 THEN 0 ELSE readPos

SpinPeekAvail ==
    IF readPos <= writePos THEN writePos - readPos
    ELSE IF endOfWrittenSpace - readPos = 0 THEN writePos - 0
    ELSE endOfWrittenSpace - readPos

\* BasicSpinLock::peek from the end of the spin loop to the return.
SpinPeek(t) ==
    /\ Testing("BasicSpinLock")
    /\ t \in Poppers
    /\ pcSpin[t] = "locked"
    /\ readPos' = SpinPeekPos
    /\ bytesAvailable' = SpinPeekAvail
    /\ peekPtr' = SpinPeekPos
    /\ SpinReturn(t, "peek")
    /\ UNCHANGED <<dequeVars, popPath, pollVars, delVars, writePos,
                   bytesReadable, endOfWrittenSpace, bytesPushed, bytesPopped,
                   buffer, pushed, ringVars, prodVars, consVars, histVars,
                   callVars, quietVars>>

\* readPos after BasicSpinLock::pop(n)
SpinPopPos(n) ==
    IF readPos < writePos THEN readPos + n
    ELSE IF endOfWrittenSpace - readPos >= n THEN readPos + n
    ELSE IF endOfWrittenSpace - readPos = 0 THEN 0
    ELSE n - (endOfWrittenSpace - readPos)

\* BasicSpinLock::pop(datum_len) from the end of the spin loop to the return;
\* the consume loop pops only what its last peek reported.
SpinPop(t) ==
    /\ Testing("BasicSpinLock")
    /\ t \in Poppers
    /\ pcSpin[t] = "locked"
    /\ bytesAvailable >= datumLen
    /\ bytesReadable' = bytesReadable - datumLen
    /\ bytesPopped' = bytesPopped + datumLen
    /\ readPos' = SpinPopPos(datumLen)
    /\ bytesAvailable' = bytesAvailable - datumLen
    /\ SpinReturn(t, "pop")
    /\ UNCHANGED <<dequeVars, popPath, pollVars, delVars, writePos,
                   endOfWrittenSpace, bytesPushed, buffer, pushed, peekPtr,
                   ringVars, prodVars, consVars, histVars, callVars,
                   quietVars>>

----------------------------------------------------------------------------

(* StagingBuffers::StdDeque<datum_len>: push, peek and pop hold the mutex
   except while they wait on a condition variable, so each runs in one step
   from its entry or its wake-up to its return or its next wait *)

\* "while (deque.size() >= NanoLogConfig::STAGING_BUFFER_SIZE/bytesPerLog)"
DequeFull == Len(deque) >= DequeCapacity

\* "while (deque.size() <= 0)"
DequeEmpty == Len(deque) <= 0

\* "bytesAvail = deque.size() * bytesPerLog;"
DequePeekAvail == Len(deque) * datumLen

\* push(datum, datum_len) is called, or a woken push re-tests the size: it
\* waits on consumedSome, or appends the element, notifies producedSome and
\* returns.
DequePush ==
    /\ Testing("StdDeque")
    /\ \/ pcPush = "idle" /\ numPushes < MaxPushed
       \/ pcPush = "woken"
    /\ IF DequeFull
         THEN /\ pcPush' = "waiting"
              /\ UNCHANGED <<deque, numPushes, pcPop>>
         ELSE /\ deque' = Append(deque, numPushes + 1)
              /\ numPushes' = numPushes + 1
              /\ pcPop' = IF pcPop = "waiting" THEN "woken" ELSE pcPop
              /\ pcPush' = "idle"
    /\ quietPeeks' = 0
    /\ UNCHANGED <<numPops, popped, datumLen, spinVars, popPath, delVars,
                   basicVars, ringVars, prodVars, consVars, peekVars,
                   histVars, callVars, tainted>>

\* peek(bytesAvail), called by the thread that also calls pop
DequePeek ==
    /\ Testing("StdDeque")
    /\ pcPop = "idle"
    /\ bytesAvailable' = DequePeekAvail
    /\ quietPeeks' = Min(quietPeeks + 1, 2)
    /\ UNCHANGED <<dequeVars, pollVars, spinVars, popPath, delVars,
                   basicVars, ringVars, prodVars, consVars, peekPtr,
                   histVars, callVars, tainted>>

\* pop(datum_len) is called, or a woken pop re-tests the size: it waits on
\* producedSome, or removes the front element, notifies consumedSome and
\* returns.
DequePop ==
    /\ Testing("StdDeque")
    /\ pcPop \in {"idle", "woken"}
    /\ IF DequeEmpty
         THEN /\ pcPop' = "waiting"
              /\ UNCHANGED <<deque, numPops, popped, pcPush>>
         ELSE /\ deque' = Tail(deque)
              /\ popped' = Append(popped, Head(deque))
              /\ numPops' = numPops + 1
              /\ pcPush' = IF pcPush = "waiting" THEN "woken" ELSE pcPush
              /\ pcPop' = "idle"
    /\ quietPeeks' = 0
    /\ UNCHANGED <<numPushes, datumLen, spinVars, popPath, delVars,
                   basicVars, ringVars, prodVars, consVars, peekVars,
                   histVars, callVars, tainted>>

\* std::condition_variable::wait may return without a notification.
DequeSpuriousWakeup ==
    /\ Testing("StdDeque")
    /\ \/ pcPush = "waiting" /\ pcPush' = "woken" /\ pcPop' = pcPop
       \/ pcPop = "waiting" /\ pcPop' = "woken" /\ pcPush' = pcPush
    /\ UNCHANGED <<dequeVars, datumLen, spinVars, popPath, delVars,
                   basicVars, ringVars, prodVars, consVars, peekVars,
                   histVars, callVars, quietVars>>

----------------------------------------------------------------------------

ProducerNext ==
    \/ \E n \in 1 .. STAGING_BUFFER_SIZE : ReserveProducerSpace(n)
    \/ \E n \in 1 .. STAGING_BUFFER_SIZE : ReserveSpaceInternal(n)
    \/ SlowLoop
    \/ SetEndOfRecordedSpace
    \/ WrapProducer
    \/ FillReservation
    \/ \E m \in 0 .. nbytes : FinishReservation(m)
    \/ MarkForDeletion

ConsumerNext ==
    \/ PeekStart
    \/ PeekEnd
    \/ PeekRoll
    \/ \E k \in 0 .. Min(bytesAvailable, STAGING_BUFFER_SIZE) : Consume(k)
    \/ CheckFlag
    \/ CheckPositions

BasicNext ==
    \/ \E n \in 1 .. STAGING_BUFFER_SIZE + 1 : BasicPush(n)
    \/ BasicPeek
    \/ \E n \in 1 .. STAGING_BUFFER_SIZE : BasicPop(n)

PollNext ==
    \/ PollPush
    \/ PollPop
    \/ PollSpuriousWakeup

\* The code of push, peek and pop between the spin loop and the return.
SpinCritical ==
    \/ \E t \in SpinThreads : SpinPush(t)
    \/ \E t \in SpinThreads : SpinPeek(t)
    \/ \E t \in SpinThreads : SpinPop(t)

SpinNext ==
    \/ \E t \in SpinThreads : SpinCall(t)
    \/ \E t \in SpinThreads : SpinAcquire(t)
    \/ SpinCritical

DequeNext ==
    \/ DequePush
    \/ DequePeek
    \/ DequePop
    \/ DequeSpuriousWakeup

Next ==
    \/ ProducerNext
    \/ ConsumerNext
    \/ BasicNext
    \/ PollNext
    \/ SpinNext
    \/ DequeNext

Spec == Init /\ [][Next]_vars

\* The callers that break the contract of an operation: a commit of more than
\* was reserved, a consume or pop of more than was peeked or is readable.
MisuseNext ==
    \/ \E m \in 1 .. STAGING_BUFFER_SIZE : FinishReservationBeyond(m)
    \/ \E k \in 1 .. STAGING_BUFFER_SIZE : ConsumeBeyond(k)
    \/ \E n \in 1 .. STAGING_BUFFER_SIZE : BasicPopBeyond(n)

ErrNext ==
    \/ Next
    \/ MisuseNext

ErrSpec == Init /\ [][ErrNext]_vars

\* doConsumesTwoStageBatched: the consumer thread peeks and, when the peek
\* reported bytes, consumes all of them before it peeks again.
LiveConsumer ==
    \/ bytesAvailable = 0 /\ PeekStart
    \/ PeekEnd
    \/ PeekRoll
    \/ bytesAvailable > 0 /\ Consume(bytesAvailable)

LiveNext ==
    \/ ProducerNext
    \/ LiveConsumer

LiveInit == Init /\ sut = "StagingBuffer"

\* The producer thread and the consumer thread each keep running: neither
\* loop is starved by the scheduler.
LiveSpec ==
    /\ LiveInit
    /\ [][LiveNext]_vars
    /\ WF_vars(ProducerNext)
    /\ WF_vars(LiveConsumer)

----------------------------------------------------------------------------
(* Properties of Alternatives::StagingBuffer and StagingBuffers::Basic *)

Ring == sut = "StagingBuffer"

IsPrefix(s, t) == Len(s) <= Len(t) /\ SubSeq(t, 1, Len(s)) = s

Elements(s) == {s[i] : i \in 1 .. Len(s)}

\* The offsets the consumer may still read from its last peek.
PeekedRange == Range(peekPtr, bytesAvailable)

\* The offsets the producer may write between a reserve and its commit.
ReservedRange == Range(reservation, nbytes)

HoldsReservation == pcP \in {"reserved", "filled"}

InSlowPath == pcP \in {"slow", "setEnd", "wrap"}

\* C1: for every interleaving of the producer (reserve, write, commit) and
\* the consumer (peek, consume of at most the peeked length), the bytes
\* consumed so far are a prefix of the bytes committed so far, in commit
\* order.
C1_ByteFifo == Ring => IsPrefix(consumed, committed)

\* Bytes were consumed after the storage was reused past a wrap-around.
C1_Witness ==
    /\ Ring
    /\ Len(consumed) > STAGING_BUFFER_SIZE
    /\ consumed = committed

\* C2: at every point, every byte of the range the last peek returned (and
\* that is not consumed yet) was committed by a finishReservation and is
\* not consumed; a reserved, not yet committed range never overlaps it.
C2_PeekOnlyCommitted ==
    Ring =>
      /\ \A i \in PeekedRange :
            /\ i \in live
            /\ storage[i] \in Elements(committed) \ Elements(consumed)
      /\ HoldsReservation => PeekedRange \cap ReservedRange = {}

\* The consumer holds peeked bytes while the producer has filled, and not
\* yet committed, a reservation at the start of the storage.
C2_Witness ==
    /\ Ring
    /\ pcP = "filled"
    /\ reservation = 0
    /\ bytesAvailable > 0
    /\ peekPtr >= nbytes

\* C3: from the return of a reserve of n bytes with pointer q to the
\* matching finishReservation, [q, q + n) lies inside the storage and holds
\* no committed-but-unconsumed byte, whatever the consumer does.
C3_ReservationFree ==
    (Ring /\ HoldsReservation) =>
      /\ 0 <= reservation
      /\ reservation + nbytes <= STAGING_BUFFER_SIZE
      /\ ReservedRange \cap live = {}

\* A reservation at the start of the storage, handed out after a wrap while
\* unread bytes remain in the tail.
C3_Witness ==
    /\ Ring
    /\ HoldsReservation
    /\ reservation = 0
    /\ live # {}
    /\ \A i \in live : i >= nbytes

\* C4: producerPos = consumerPos only when no committed byte is unread.
C4_EqualMeansEmpty ==
    (Ring /\ producerPos = consumerPos) => live = {}

\* The positions meet again, away from the start, after bytes went through.
C4_Witness ==
    /\ Ring
    /\ producerPos = consumerPos
    /\ producerPos > 0
    /\ Len(consumed) > 0

\* C5: storage <= producerPos, consumerPos, endOfRecordedSpace
\* <= storage + STAGING_BUFFER_SIZE in every state.
C5_Bounds ==
    Ring =>
      /\ 0 <= producerPos /\ producerPos <= STAGING_BUFFER_SIZE
      /\ 0 <= consumerPos /\ consumerPos <= STAGING_BUFFER_SIZE
      /\ 0 <= endOfRecordedSpace /\ endOfRecordedSpace <= STAGING_BUFFER_SIZE

\* The producer has wrapped and the consumer stands at the end marker it
\* moved inward.
C5_Witness ==
    /\ Ring
    /\ endOfRecordedSpace < STAGING_BUFFER_SIZE
    /\ consumerPos = endOfRecordedSpace
    /\ producerPos < consumerPos

\* C6: never more than STAGING_BUFFER_SIZE - 1 committed-but-unconsumed
\* bytes.
C6_Capacity == Ring => Cardinality(live) <= STAGING_BUFFER_SIZE - 1

\* The ring is as full as it gets.
C6_Witness == Ring /\ Cardinality(live) = STAGING_BUFFER_SIZE - 1

\* C7: under LiveSpec (both threads scheduled fairly, the consumer peeking
\* and consuming all that each peek reports), a producer that is in the slow
\* path of reserveProducerSpace(n) with 0 < n < STAGING_BUFFER_SIZE
\* eventually holds the reservation, from every reachable state.
C7_BlockedReserveReturns ==
    (Ring /\ InSlowPath /\ blocking /\ nbytes < STAGING_BUFFER_SIZE)
        ~> (pcP = "reserved")

\* The second reserveProducerSpace, of STAGING_BUFFER_SIZE - 1 bytes behind
\* as many committed bytes, has returned: it had to wait until the consumer
\* consumed them all and rolled over.
C7_Witness ==
    /\ Ring
    /\ pcP = "reserved" /\ blocking
    /\ nbytes = STAGING_BUFFER_SIZE - 1
    /\ numAllocations = 2 /\ numTimesProducerBlocked = 1
    /\ Len(committed) = STAGING_BUFFER_SIZE - 1
    /\ consumed = committed
    /\ reservation = 0

\* C8 as stated: a non-blocking reserveSpaceInternal(n) called with
\* (committed-but-unconsumed bytes + n) <= STAGING_BUFFER_SIZE - 1 never
\* returns nullptr.
C8_Original ==
    [][(Ring /\ InSlowPath /\ ~blocking
            /\ liveAtCall + nbytes <= STAGING_BUFFER_SIZE - 1)
        => pcP' # "idle"]_vars

\* C8 amended: a non-blocking reserveSpaceInternal(n) called with n smaller
\* than the largest contiguous free region (the tail from producerPos or,
\* with the consumer not ahead, the head up to consumerPos) never returns
\* nullptr, whatever the consumer does meanwhile.
C8_FitsContiguousNeverNull ==
    [][(Ring /\ InSlowPath /\ ~blocking /\ nbytes < freeAtCall)
        => pcP' # "idle"]_vars

\* A non-blocking reserve was served from the head of the storage, after a
\* wrap, while committed bytes were unread at its call.
C8_Witness ==
    /\ Ring
    /\ pcP = "reserved" /\ ~blocking
    /\ nbytes < freeAtCall
    /\ liveAtCall > 0
    /\ reservation = 0

\* The ring has seen one reserveProducerSpace and nothing else of the
\* producer: no slow path was entered and the end marker is untouched.
OneReservationOnly ==
    /\ numAllocations = 1
    /\ numTimesProducerBlocked = 0
    /\ endOfRecordedSpace = STAGING_BUFFER_SIZE
    /\ pcP = "idle"
    /\ Len(committed) > 0

\* C9: on a new ring, after reserveProducerSpace, the write of B and
\* finishReservation(|B|) with 0 < |B| < STAGING_BUFFER_SIZE, a peek returns
\* the start of the storage advanced by what was consumed, the number of
\* bytes of B not consumed yet, and exactly those bytes; the consumed bytes
\* are B's first bytes, and once all of B is consumed the peek reports 0.
C9_RoundTrip ==
    (Ring /\ OneReservationOnly /\ quietPeeks >= 1) =>
      /\ peekPtr = Len(consumed)
      /\ bytesAvailable = Len(committed) - Len(consumed)
      /\ consumed \o ReadBytes(storage, peekPtr, bytesAvailable) = committed

\* B of STAGING_BUFFER_SIZE - 1 bytes went through and the peek after the
\* consume has returned length 0.
C9_Witness ==
    /\ Ring
    /\ OneReservationOnly
    /\ quietPeeks >= 1
    /\ Len(committed) = STAGING_BUFFER_SIZE - 1
    /\ consumed = committed
    /\ bytesAvailable = 0

\* C10: once a peek has returned, with no producer step since it was called
\* and no consume or pop since, a further peek returns the same pointer and
\* the same length and moves neither consumerPos nor readPos; for
\* StagingBuffer::peek and for Basic::peek.
C10_PeekIdempotent ==
    [][(quietPeeks >= 1 /\ quietPeeks' >= 1) =>
        /\ peekPtr' = peekPtr
        /\ bytesAvailable' = bytesAvailable
        /\ consumerPos' = consumerPos
        /\ readPos' = readPos]_vars

\* Two peeks in a row have returned the same head region of a ring whose
\* producer and consumer have both rolled over.
C10_Witness ==
    /\ Ring
    /\ quietPeeks = 2
    /\ endOfRecordedSpace < STAGING_BUFFER_SIZE
    /\ consumerPos = 0
    /\ peekPtr = 0
    /\ bytesAvailable > 0
    /\ Len(consumed) > 0

\* C11: whenever checkCanDelete has returned true, shouldDeallocate is set
\* and no committed byte is unread; and once shouldDeallocate is set and
\* consumerPos = producerPos (the producer reserving and committing no
\* more), every further step keeps it so.
C11_DeleteOnlyWhenDrained ==
    [][Ring =>
        /\ canDelete' => (shouldDeallocate' /\ live' = {})
        /\ CheckCanDelete => CheckCanDelete']_vars

\* checkCanDelete has returned true on a ring whose producer wrapped and
\* whose bytes were all consumed, and the consumer has peeked again since.
C11_Witness ==
    /\ Ring
    /\ canDelete
    /\ endOfRecordedSpace < STAGING_BUFFER_SIZE
    /\ Len(consumed) > 0
    /\ quietPeeks >= 1

\* C12: under LiveSpec, once shouldDeallocate is set (the producer has
\* stopped, wherever producerPos stands), the consumer's peek / consume-all
\* loop leads to a state in which checkCanDelete returns true.
C12_DrainsToDeletable == (Ring /\ shouldDeallocate) ~> CheckCanDelete

\* The producer stopped right after wrapping to storage with bytes unread
\* in the tail; the consumer drained them and rolled over.
C12_Witness ==
    /\ Ring
    /\ CheckCanDelete
    /\ producerPos = 0
    /\ endOfRecordedSpace < STAGING_BUFFER_SIZE
    /\ endOfRecordedSpace > 0
    /\ consumed = committed
    /\ Len(consumed) > 0

\* C13 as stated: no finishReservation advances producerPos by more than
\* the nbytes of the reservation it finishes (such a call trips an
\* assertion instead).
C13_Original ==
    [][(Ring /\ pcP = "filled") => producerPos' - producerPos <= nbytes]_vars

\* C14 as stated: right after a peek has returned, no consume advances
\* consumerPos by more than the length that peek reported (such a call trips
\* an assertion instead).
C14_Original ==
    [][(Ring /\ pcC = "idle" /\ quietPeeks >= 1 /\ consumerPos' > consumerPos)
        => consumerPos' - consumerPos <= bytesAvailable]_vars

\* C15: a reserve of exactly STAGING_BUFFER_SIZE bytes never holds a
\* reservation, whatever the consumer does: the non-blocking
\* reserveSpaceInternal goes through one pass of its loop and returns
\* nullptr, the blocking reserveProducerSpace stays in the loop.
C15_FullSizeNeverReserved ==
    [][Ring =>
        /\ HoldsReservation' => nbytes' < STAGING_BUFFER_SIZE
        /\ (InSlowPath /\ nbytes = STAGING_BUFFER_SIZE /\ blocking)
              => InSlowPath'
        /\ (InSlowPath /\ nbytes = STAGING_BUFFER_SIZE /\ ~blocking)
              => /\ pcP' # "reserved"
                 /\ pcP # "slow" => pcP' # "slow"]_vars

\* A blocking reserve of STAGING_BUFFER_SIZE bytes is still in its loop on
\* a ring that the consumer has drained and rolled back to storage.
C15_Witness ==
    /\ Ring
    /\ InSlowPath /\ blocking
    /\ nbytes = STAGING_BUFFER_SIZE
    /\ live = {}
    /\ Len(consumed) > 0
    /\ producerPos = 0 /\ consumerPos = 0

\* The producer is at the loop condition of reserveSpaceInternal.
AtLoopCondition == pcP = "slow"

\* The reserve in progress returns the current producerPos and moves
\* neither producerPos nor endOfRecordedSpace.
ReturnsInPlace ==
    /\ pcP' = "reserved"
    /\ reservation' = producerPos
    /\ producerPos' = producerPos
    /\ endOfRecordedSpace' = endOfRecordedSpace

\* C16 as stated: with consumerPos <= producerPos and n equal to the tail
\* size, the producer's next step in a reserve of n returns the current
\* producerPos and leaves producerPos and endOfRecordedSpace unchanged.
C16_Original ==
    [][(Ring /\ AtLoopCondition /\ consumerPos <= producerPos
            /\ nbytes = STAGING_BUFFER_SIZE - producerPos /\ pcP' # pcP)
        => ReturnsInPlace]_vars

\* C16 amended: with consumerPos <= producerPos and n smaller than the tail
\* size, the producer's next step in a reserve of n returns the current
\* producerPos and leaves producerPos and endOfRecordedSpace unchanged; the
\* reserve is never past the loop condition in such a state, and the call
\* itself either returns the current producerPos or enters the loop.
C16_FitsTailInPlace ==
    [][/\ (Ring /\ InSlowPath /\ consumerPos <= producerPos
            /\ nbytes < STAGING_BUFFER_SIZE - producerPos)
        => /\ AtLoopCondition
           /\ pcP' # pcP => ReturnsInPlace
       /\ (Ring /\ pcP = "idle" /\ pcP' # "idle"
            /\ consumerPos <= producerPos
            /\ nbytes' < STAGING_BUFFER_SIZE - producerPos)
        => /\ pcP' = "slow" \/ ReturnsInPlace
           /\ producerPos' = producerPos
           /\ endOfRecordedSpace' = endOfRecordedSpace]_vars

\* A reserve that entered the slow path with its cached minFreeSpace too
\* small was served from the tail, one byte short of filling it, with bytes
\* unread behind it.
C16_Witness ==
    /\ Ring
    /\ pcP = "reserved"
    /\ numTimesProducerBlocked > 0
    /\ reservation = producerPos
    /\ reservation > 0
    /\ nbytes = STAGING_BUFFER_SIZE - producerPos - 1
    /\ consumerPos <= producerPos
    /\ endOfRecordedSpace = STAGING_BUFFER_SIZE
    /\ live # {}

\* C17 as stated (its safety half): with SignalPoll, one pushing and one
\* popping thread and a fixed datum size below STAGING_BUFFER_SIZE, the
\* producer is never waiting on consumedSome while the consumer is waiting
\* on producedSome.
C17_Original ==
    ~(sut = "SignalPoll" /\ pcPush = "waiting" /\ pcPop = "waiting")

\* The writer of Basic stands at the end of the storage with everything from
\* readPos up to there unread: the buffer was filled and readPos bytes have
\* been popped since.
FilledToEnd ==
    /\ sut = "Basic"
    /\ readPos <= writePos
    /\ writePos = STAGING_BUFFER_SIZE

\* The same after a push that rolled over and was refused.
FilledToEndRolled ==
    /\ sut = "Basic"
    /\ writePos = 0
    /\ readPos > 0
    /\ endOfWrittenSpace = STAGING_BUFFER_SIZE
    /\ bytesReadable = STAGING_BUFFER_SIZE - readPos

\* C18: while Basic holds STAGING_BUFFER_SIZE unread bytes (readPos = 0 and
\* writePos = STAGING_BUFFER_SIZE) no step copies anything or moves the
\* writer, and every push returns false; once k bytes have been popped from
\* the full buffer a push that succeeds is smaller than k.
C18_FullBufferRefusesPush ==
    [][/\ (FilledToEnd /\ readPos = 0) =>
             /\ buffer' = buffer
             /\ bytesPushed' = bytesPushed
             /\ writePos' = writePos
             /\ bytesReadable' <= bytesReadable
             /\ (bytesPopped' = bytesPopped /\ quietPeeks' = 0) => ~pushed'
       /\ ((FilledToEnd \/ FilledToEndRolled) /\ bytesPushed' > bytesPushed)
             => bytesPushed' - bytesPushed < readPos]_vars

\* A push has just been refused by the full buffer.
C18_Witness ==
    /\ FilledToEnd
    /\ readPos = 0
    /\ bytesReadable = STAGING_BUFFER_SIZE
    /\ endOfWrittenSpace = STAGING_BUFFER_SIZE
    /\ ~pushed
    /\ quietPeeks = 0

\* The bytes a pop of Basic released in this step (0 in any other step).
Popped == bytesPopped' - bytesPopped

\* The unread bytes of Basic between readPos and endOfWrittenSpace.
FirstHalf == endOfWrittenSpace - readPos

\* C19: a pop(n) of Basic that straddles the end of the written space
\* (readPos > writePos and 0 < endOfWrittenSpace - readPos < n <=
\* bytesReadable) leaves readPos at n - (endOfWrittenSpace - readPos), takes
\* n from bytesReadable, adds n to bytesPopped and leaves writePos and
\* endOfWrittenSpace as they were.
C19_PopStraddlesEnd ==
    [][(/\ sut = "Basic"
        /\ readPos > writePos
        /\ 0 < FirstHalf /\ FirstHalf < Popped
        /\ Popped <= bytesReadable)
         => /\ readPos' = Popped - FirstHalf
            /\ bytesReadable' = bytesReadable - Popped
            /\ writePos' = writePos
            /\ endOfWrittenSpace' = endOfWrittenSpace]_vars

\* A straddling pop has just returned: the writer has rolled over once and
\* the reader is inside the second half, having released every byte below
\* endOfWrittenSpace and readPos more.
C19_Witness ==
    /\ sut = "Basic"
    /\ quietPeeks = 0
    /\ popPath = "straddle"
    /\ 0 < readPos /\ readPos <= writePos
    /\ endOfWrittenSpace < STAGING_BUFFER_SIZE
    /\ endOfWrittenSpace > writePos
    /\ bytesPopped = endOfWrittenSpace + readPos
    /\ bytesPushed = endOfWrittenSpace + writePos

\* The contiguous bytes from producerPos on that hold no unread data: up to
\* the end of the storage when the consumer is not ahead of the producer, up
\* to consumerPos when it is.
FreeFromProducer ==
    IF consumerPos <= producerPos
      THEN STAGING_BUFFER_SIZE - producerPos
      ELSE consumerPos - producerPos

C21_FinishAssertsHold ==
    Ring => /\ HoldsReservation => \A m \in 0 .. nbytes : FinishAsserts(m)
            /\ producerPos < STAGING_BUFFER_SIZE

\* A reservation about to be committed that leaves no slack in either
\* assertion, taken on the slow path after the consumer has released bytes.
C21_Witness ==
    /\ Ring
    /\ pcP = "filled"
    /\ nbytes = minFreeSpace - 1
    /\ producerPos + nbytes = STAGING_BUFFER_SIZE - 1
    /\ producerPos > 0
    /\ numTimesProducerBlocked > 0
    /\ Len(consumed) > 0

\* A reserve is in its slow path while the consumer stands at storage, not
\* ahead of the producer, and the tail is too small for the request.
WrapPending ==
    /\ Ring
    /\ InSlowPath
    /\ consumerPos = 0
    /\ STAGING_BUFFER_SIZE - producerPos <= nbytes

\* C22: when consumerPos = storage and the tail from producerPos is too
\* small for n, a reserve does not take the fast path; each pass of its loop
\* sets endOfRecordedSpace to producerPos, never decides to wrap and leaves
\* producerPos alone; it hands out no pointer: a non-blocking call returns
\* nullptr at the end of the pass and a blocking call goes back to the loop
\* condition.
C22_WrapPending ==
    [][/\ (/\ Ring /\ pcP = "idle" /\ pcP' # "idle"
           /\ consumerPos = 0
           /\ STAGING_BUFFER_SIZE - producerPos <= nbytes')
            => /\ pcP' = "slow"
               /\ producerPos' = producerPos
       /\ WrapPending
            => /\ producerPos' = producerPos
               /\ pcP # "wrap"
               /\ pcP' # "reserved"
               /\ (pcP = "slow" /\ pcP' # pcP) => pcP' = "setEnd"
               /\ (pcP = "setEnd" /\ pcP' # pcP)
                    => /\ endOfRecordedSpace' = producerPos
                       /\ IF blocking
                            THEN pcP' = "slow"
                            ELSE pcP' = "idle" /\ reservation' = NullPtr]_vars

\* A blocking reserve has finished a pass in the wrap-pending state: the end
\* marker is at producerPos, unread bytes lie before it and the consumer has
\* not left storage.
C22_Witness ==
    /\ WrapPending
    /\ pcP = "slow"
    /\ blocking
    /\ 0 < producerPos
    /\ endOfRecordedSpace = producerPos
    /\ nbytes < STAGING_BUFFER_SIZE
    /\ Cardinality(live) = producerPos

\* The consumer of the ring has consumed exactly one byte since construction
\* and stands at storage + 1 with unread bytes before it; everything the
\* producer committed lies before endOfRecordedSpace, where a reserve found
\* the tail too small.
AfterConsumeOne ==
    /\ Ring
    /\ Len(consumed) = 1
    /\ consumerPos = 1
    /\ Len(committed) > 1
    /\ endOfRecordedSpace = Len(committed)
    /\ endOfRecordedSpace < STAGING_BUFFER_SIZE

\* C23 as stated: from consumerPos = storage and a reserve refused because
\* the tail is too small for it, after consume(1) a reserve of that size
\* returns a pointer at storage.
C23_Original ==
    [][(/\ AfterConsumeOne
        /\ InSlowPath
        /\ STAGING_BUFFER_SIZE - endOfRecordedSpace <= nbytes
        /\ ~InSlowPath')
         => pcP' = "reserved" /\ reservation' = 0]_vars

\* The producer has rolled over for the first time and committed nothing
\* since.
WrappedFirstLap ==
    /\ Ring
    /\ producerPos = 0
    /\ 0 < endOfRecordedSpace
    /\ endOfRecordedSpace < STAGING_BUFFER_SIZE
    /\ endOfRecordedSpace = Len(committed)

\* C23 as amended: once the consumer has left storage the reserve that was
\* refused for lack of tail rolls producerPos over to storage and leaves
\* endOfRecordedSpace at the old producerPos; with no more than nbytes
\* consumed it still hands out nothing (nullptr when non-blocking, back to the
\* loop when blocking); it returns a pointer, which is storage, only when the
\* consumer is more than nbytes ahead or has drained the ring, and the commit
\* of m bytes then leaves producerPos = storage + m.
C23_WrapsThenWaits ==
    [][/\ (Ring /\ pcP = "wrap" /\ pcP' # pcP)
            => /\ producerPos' = 0
               /\ endOfRecordedSpace' = producerPos
               /\ cachedReadPos <= nbytes
                    => IF blocking
                         THEN pcP' = "slow"
                         ELSE pcP' = "idle" /\ reservation' = NullPtr
       /\ (WrappedFirstLap /\ pcP # "reserved" /\ pcP' = "reserved")
            => /\ reservation' = 0
               /\ consumerPos > nbytes \/ consumerPos = 0
       /\ (WrappedFirstLap /\ pcP = "filled" /\ pcP' = "idle")
            => producerPos' = Len(committed') - Len(committed)]_vars

\* The wrapped reserve has returned storage while unread bytes remain
\* between the consumer and the end marker.
C23_Witness ==
    /\ WrappedFirstLap
    /\ pcP = "reserved"
    /\ reservation = 0
    /\ numTimesProducerBlocked > 0
    /\ consumerPos > nbytes
    /\ consumerPos < endOfRecordedSpace
    /\ Len(consumed) = consumerPos

\* Both threads of the ring are between calls and the consumer, having been
\* round the storage at least once, is not ahead of the producer: every
\* roll-over the producer decided on has been followed by the consumer.
WrapHonoured ==
    /\ Ring
    /\ pcP \in {"idle", "reserved", "filled"}
    /\ pcC = "idle"
    /\ consumerPos <= producerPos
    /\ Len(consumed) > consumerPos

\* C24 as stated, for the states after a wrap window has closed: once the
\* consumer has reset consumerPos to storage, endOfRecordedSpace is storage +
\* STAGING_BUFFER_SIZE again.
C24_Original == WrapHonoured => endOfRecordedSpace = STAGING_BUFFER_SIZE

\* C24 as amended: endOfRecordedSpace starts at storage + STAGING_BUFFER_SIZE
\* and is written only by a pass of the reserve loop that finds the tail too
\* small, which sets it to producerPos, below the end of the storage; nothing
\* ever sets it back, so after the first such pass it stays below the end,
\* also after the consumer has followed the roll-over.  It always lies in
\* the storage, and while the producer is behind the consumer it is not below
\* consumerPos.
C24_EndMarkerNeverReset ==
    [][Ring => /\ endOfRecordedSpace' \in 0 .. STAGING_BUFFER_SIZE
               /\ endOfRecordedSpace < STAGING_BUFFER_SIZE
                    => endOfRecordedSpace' < STAGING_BUFFER_SIZE
               /\ endOfRecordedSpace' # endOfRecordedSpace => pcP = "setEnd"
               /\ (pcP = "setEnd" /\ pcP' # pcP)
                    => endOfRecordedSpace' = producerPos
               /\ producerPos' < consumerPos'
                    => consumerPos' <= endOfRecordedSpace']_vars

\* The consumer has followed a roll-over back to storage, unread bytes lie
\* ahead of it, and the end marker is still where the roll-over left it.
C24_Witness ==
    /\ WrapHonoured
    /\ pcP = "idle"
    /\ 0 < endOfRecordedSpace
    /\ endOfRecordedSpace < STAGING_BUFFER_SIZE
    /\ consumerPos < producerPos
    /\ Len(consumed) >= endOfRecordedSpace

\* The consumer of the ring is between calls and stands at the end marker.
AtEndMarker ==
    /\ Ring
    /\ pcC = "idle"
    /\ consumerPos = endOfRecordedSpace

\* A peek returns in this step without having gone through the roll-over
\* branch.
PeekReturnsAtOnce ==
    /\ pcC = "idle" /\ pcC' = "idle"
    /\ quietPeeks' > quietPeeks

\* C25 as stated: in any state with consumerPos = endOfRecordedSpace the next
\* peek sets consumerPos to storage and returns the head region, which
\* starts at storage.
C25_Original ==
    [][(AtEndMarker /\ PeekReturnsAtOnce)
         => consumerPos' = 0 /\ peekPtr' = 0]_vars

\* C25 as amended: in any state with consumerPos = endOfRecordedSpace and
\* producerPos < consumerPos (the producer has rolled over) the next peek
\* takes the roll-over branch: it reads producerPos, finds no bytes left
\* before the end marker, sets consumerPos to storage and returns storage
\* with the length the producerPos it read has from storage.  With
\* producerPos >= consumerPos a peek that returns leaves consumerPos where it
\* is.
C25_PeekFollowsRollOver ==
    [][/\ (AtEndMarker /\ producerPos < consumerPos)
            => /\ ~PeekReturnsAtOnce
               /\ pcC' \notin {"idle", "checkPos"}
                    => /\ pcC' = "peekEnd"
                       /\ cachedRecordHead' = producerPos
       /\ (Ring /\ pcC = "peekEnd" /\ consumerPos = endOfRecordedSpace
             /\ pcC' # pcC)
            => pcC' = "peekRoll" /\ consumerPos' = consumerPos
       /\ (Ring /\ pcC = "peekRoll" /\ pcC' # pcC)
            => /\ consumerPos = endOfRecordedSpace
               /\ consumerPos' = 0
               /\ peekPtr' = 0
               /\ bytesAvailable' = cachedRecordHead
               /\ pcC' = "idle"
       /\ (Ring /\ producerPos >= consumerPos /\ PeekReturnsAtOnce)
            => /\ consumerPos' = consumerPos
               /\ peekPtr' = consumerPos
               /\ bytesAvailable' = producerPos - consumerPos]_vars

\* A peek has just followed the producer's first roll-over: everything up to
\* the end marker is consumed, the consumer is at storage and holds the
\* bytes committed since.
C25_Witness ==
    /\ Ring
    /\ pcC = "idle"
    /\ quietPeeks >= 1
    /\ consumerPos = 0
    /\ peekPtr = 0
    /\ 0 < endOfRecordedSpace
    /\ endOfRecordedSpace < STAGING_BUFFER_SIZE
    /\ Len(consumed) = endOfRecordedSpace
    /\ bytesAvailable > 0
    /\ bytesAvailable = Len(committed) - Len(consumed)

\* Basic: the reader is behind the writer at a non-zero offset larger than
\* n and the tail after writePos is smaller than n.
StraddlesBasic(n) ==
    /\ sut = "Basic"
    /\ 0 < readPos /\ readPos <= writePos
    /\ n < readPos
    /\ STAGING_BUFFER_SIZE - writePos < n

\* Basic: this step is a push that returned false.
PushRefused ==
    /\ ~pushed'
    /\ quietPeeks' = 0
    /\ bytesPopped' = bytesPopped
    /\ popPath' = popPath

\* The unread bytes of the ring at and after consumerPos.
LiveTail == {i \in live : i >= consumerPos}

\* C26: with the reader behind the writer at an offset r > n > tail, a write
\* of n bytes succeeds by wrapping.  Basic::push(n) is not refused, stores
\* endOfWrittenSpace = old writePos, copies the data to offset 0, leaves
\* writePos = n and readPos alone, and the reader's contiguous region is
\* [readPos, old writePos), which peek returns unless it is empty.  The ring's reserve goes through "setEnd" and
\* "wrap" to a pointer at storage with endOfRecordedSpace = old producerPos,
\* the commit of m <= n bytes leaves producerPos = storage + m, and while
\* the producer is behind the consumer the unread bytes from consumerPos on
\* are exactly [consumerPos, endOfRecordedSpace).
C26_StraddledRollOver ==
    [][/\ \A n \in 1 .. STAGING_BUFFER_SIZE :
            StraddlesBasic(n) =>
              /\ ~(PushRefused /\ writePos' = 0
                     /\ endOfWrittenSpace' = writePos /\ readPos <= n)
              /\ ~NoRoomBeforeReader(n)
              /\ MustRollOver(n) /\ ~NoRoomAfterRollOver(n)
              /\ bytesPushed' = bytesPushed + n =>
                   /\ pushed'
                   /\ endOfWrittenSpace' = writePos
                   /\ writePos' = n
                   /\ readPos' = readPos
                   /\ bytesReadable' = bytesReadable + n
                   /\ buffer' = WriteBytes(buffer, 0, n, bytesPushed)
                   /\ readPos < writePos =>
                        /\ BasicPeekPos' = readPos
                        /\ BasicPeekAvail' = writePos - readPos
       /\ (/\ Ring /\ pcP = "slow" /\ pcP' # pcP
           /\ 0 < consumerPos /\ consumerPos <= producerPos
           /\ nbytes < consumerPos
           /\ STAGING_BUFFER_SIZE - producerPos < nbytes)
            => pcP' = "setEnd" /\ cachedReadPos' = consumerPos
       /\ (Ring /\ pcP = "setEnd" /\ pcP' # pcP /\ cachedReadPos > nbytes)
            => /\ pcP' = "wrap"
               /\ endOfRecordedSpace' = producerPos
               /\ producerPos' = producerPos
       /\ (Ring /\ pcP = "wrap" /\ pcP' # pcP /\ cachedReadPos > nbytes)
            => /\ pcP' = "slow"
               /\ producerPos' = 0
               /\ endOfRecordedSpace = producerPos
               /\ endOfRecordedSpace' = endOfRecordedSpace
               /\ minFreeSpace' = cachedReadPos
               /\ consumerPos' = consumerPos
       /\ (Ring /\ pcP = "slow" /\ pcP' # pcP /\ minFreeSpace > nbytes)
            => /\ pcP' = "reserved"
               /\ reservation' = producerPos
               /\ producerPos' = producerPos
               /\ endOfRecordedSpace' = endOfRecordedSpace
       /\ (Ring /\ pcP = "filled" /\ pcP' = "idle" /\ reservation = 0)
            => /\ producerPos' = Len(committed') - Len(committed)
               /\ committed' = committed \o
                      ReadBytes(storage, 0, producerPos')
               /\ consumerPos' = consumerPos
               /\ endOfRecordedSpace' = endOfRecordedSpace
       /\ (Ring /\ producerPos' < consumerPos')
            => LiveTail' =
                 Range(consumerPos', endOfRecordedSpace' - consumerPos')]_vars

\* Basic after a straddled roll-over: the writer filled the storage, the
\* reader released three bytes, and a push of two bytes went to offset 0;
\* the reader's region is the one byte before the end marker.
C26_Witness ==
    /\ sut = "Basic"
    /\ pushed
    /\ endOfWrittenSpace = STAGING_BUFFER_SIZE
    /\ readPos = STAGING_BUFFER_SIZE - 1
    /\ writePos = 2
    /\ bytesPushed = STAGING_BUFFER_SIZE + 2
    /\ bytesPopped = readPos
    /\ bytesReadable = 3
    /\ BasicPeekPos = readPos
    /\ BasicPeekAvail = 1

\* This step is a call of reserveProducerSpace: nothing else increments
\* numAllocations.
CallsReserveProducerSpace ==
    /\ Ring
    /\ pcP = "idle"
    /\ numAllocations' = numAllocations + 1

\* C27: a reserveProducerSpace(n) with n < minFreeSpace returns the current
\* producerPos in the step of the call; it increments numAllocations and
\* changes nothing else of the buffer: producerPos, endOfRecordedSpace,
\* minFreeSpace, numTimesProducerBlocked, consumerPos and the storage stay
\* as they are, and no copy of consumerPos is taken.
C27_FastPathFrame ==
    [][(CallsReserveProducerSpace /\ nbytes' < minFreeSpace)
         => /\ pcP' = "reserved"
            /\ reservation' = producerPos
            /\ cachedReadPos' = cachedReadPos
            /\ UNCHANGED <<producerPos, endOfRecordedSpace, minFreeSpace,
                           numTimesProducerBlocked, consumerPos, storage>>]_vars

\* The second reservation of a ring whose reserve loop has never run, taken
\* behind committed bytes and after the consumer has moved.
C27_Witness ==
    /\ Ring
    /\ pcP = "reserved"
    /\ numTimesProducerBlocked = 0
    /\ numAllocations = 2
    /\ reservation = producerPos
    /\ producerPos > 0
    /\ consumerPos > 0
    /\ nbytes = minFreeSpace - 1

\* The bytes the consumer of the ring gets from peek and consume if the
\* producer commits nothing more: up to producerPos when the producer is not
\* behind the consumer, else up to the end marker and then from storage up
\* to producerPos.
Obtainable ==
    IF consumerPos <= producerPos
      THEN ReadBytes(storage, consumerPos, producerPos - consumerPos)
      ELSE ReadBytes(storage, consumerPos, endOfRecordedSpace - consumerPos)
             \o ReadBytes(storage, 0, producerPos)

\* This step is the return of finishReservation.
Commits == pcP = "filled" /\ pcP' = "idle"

\* This step is a consume.
Consumes == Len(consumed') > Len(consumed)

\* C28: no step of a reserve (the call, a pass of the loop, the store to
\* endOfRecordedSpace, the roll-over of producerPos, the return of a pointer
\* or of nullptr) changes the sequence of bytes the consumer can still
\* obtain, and neither does the caller's copy into the reservation or a
\* peek; finishReservation appends the committed bytes to it and consume
\* removes the consumed ones from its front.  The sequence is always the
\* committed bytes that are not consumed yet, in order.
C28_ReserveKeepsObtainable ==
    [][Ring =>
        /\ Obtainable' =
             SubSeq(committed', Len(consumed') + 1, Len(committed'))
        /\ IF Commits
             THEN Obtainable' =
                    Obtainable \o SubSeq(committed', Len(committed) + 1,
                                         Len(committed'))
             ELSE IF Consumes
               THEN Obtainable =
                      SubSeq(consumed', Len(consumed) + 1, Len(consumed'))
                        \o Obtainable'
               ELSE Obtainable' = Obtainable]_vars

\* A reserve has rolled producerPos over and the caller has filled the
\* reservation at storage, while the bytes of the previous lap are still to
\* be consumed.
C28_Witness ==
    /\ Ring
    /\ pcP = "filled"
    /\ reservation = 0
    /\ producerPos = 0
    /\ consumerPos > nbytes
    /\ consumerPos < endOfRecordedSpace
    /\ Len(Obtainable) = endOfRecordedSpace - consumerPos
    /\ Len(consumed) > 0

\* C29: whenever peek has found its snapshot of producerPos below
\* consumerPos and is about to read endOfRecordedSpace, the value it reads
\* satisfies consumerPos <= endOfRecordedSpace <= STAGING_BUFFER_SIZE, so
\* the unsigned difference endOfRecordedSpace - consumerPos is the true
\* difference; and no peek of the ring reports more than
\* STAGING_BUFFER_SIZE - 1 bytes.
C29_EndMarkerAheadOfConsumer ==
    Ring =>
      /\ pcC = "peekEnd" =>
           /\ cachedRecordHead < consumerPos
           /\ consumerPos <= endOfRecordedSpace
           /\ endOfRecordedSpace <= STAGING_BUFFER_SIZE
           /\ TailRegion = endOfRecordedSpace - consumerPos
      /\ bytesAvailable <= STAGING_BUFFER_SIZE - 1

\* A peek is between its load of producerPos and its load of
\* endOfRecordedSpace, bytes of the previous lap are left before the end
\* marker, and the producer has committed again since the snapshot.
C29_Witness ==
    /\ Ring
    /\ pcC = "peekEnd"
    /\ cachedRecordHead < producerPos
    /\ consumerPos < endOfRecordedSpace
    /\ endOfRecordedSpace < STAGING_BUFFER_SIZE

\* The bytes Basic holds between its positions.
BytesHeld ==
    IF readPos <= writePos
      THEN writePos - readPos
      ELSE (endOfWrittenSpace - readPos) + writePos

\* C30 as stated: after any sequence of push, peek and pop of Basic in which
\* no pop asks for more than bytesReadable, bytesReadable equals bytesPushed
\* - bytesPopped and equals the number of bytes held between readPos and
\* writePos.
C30_Original ==
    sut = "Basic" =>
      /\ bytesReadable = bytesPushed - bytesPopped
      /\ bytesReadable = BytesHeld

\* C31: a push of Basic that returns false leaves readPos, bytesReadable,
\* bytesPushed, bytesPopped and the buffer's bytes unchanged; if it found
\* 0 < readPos <= writePos (so it was the tail that was too small) it has
\* set endOfWrittenSpace to the old writePos and writePos to 0, and if the
\* buffer was empty then, the following peek returns the buffer base and 0
\* bytes; a push refused with readPos = 0 or with readPos > writePos leaves
\* writePos alone.
C31_RefusedPushFrame ==
    [][(sut = "Basic" /\ PushRefused)
         => /\ UNCHANGED <<readPos, bytesReadable, bytesPushed, bytesPopped,
                           buffer>>
            /\ (0 < readPos /\ readPos <= writePos)
                 => /\ endOfWrittenSpace' = writePos
                    /\ writePos' = 0
                    /\ readPos = writePos
                         => BasicPeekPos' = 0 /\ BasicPeekAvail' = 0
            /\ (readPos = 0 \/ readPos > writePos)
                 => writePos' = writePos]_vars

\* A push has just been refused after rolling the writer over in an empty
\* buffer: the reader is at the end marker, nothing is readable, and peek
\* answers with the buffer base and no bytes.
C31_Witness ==
    /\ sut = "Basic"
    /\ ~pushed
    /\ quietPeeks = 0
    /\ writePos = 0
    /\ 0 < readPos
    /\ readPos = endOfWrittenSpace
    /\ bytesReadable = 0
    /\ bytesPopped = readPos
    /\ BasicPeekPos = 0
    /\ BasicPeekAvail = 0

\* This step is a peek of Basic that returns something new (a repeated peek
\* changes nothing).
BasicPeeks == sut = "Basic" /\ quietPeeks' > quietPeeks

\* C32: while readPos > writePos a peek of Basic returns the bytes between
\* readPos and endOfWrittenSpace only, however many bytes were pushed at the
\* head, and leaves readPos alone; once no byte is left before
\* endOfWrittenSpace the peek moves readPos to the buffer base and returns
\* (base, writePos).  With readPos <= writePos it returns (readPos,
\* writePos - readPos).
C32_PeekContiguousOnly ==
    [][BasicPeeks =>
        IF readPos > writePos
          THEN IF endOfWrittenSpace - readPos > 0
                 THEN /\ peekPtr' = readPos
                      /\ bytesAvailable' = endOfWrittenSpace - readPos
                      /\ readPos' = readPos
                 ELSE /\ endOfWrittenSpace = readPos
                      /\ peekPtr' = 0
                      /\ bytesAvailable' = writePos
                      /\ readPos' = 0
          ELSE /\ peekPtr' = readPos
               /\ bytesAvailable' = writePos - readPos
               /\ readPos' = readPos]_vars

\* A peek has returned the tail bytes only, while more bytes are readable
\* at the head.
C32_Witness ==
    /\ sut = "Basic"
    /\ quietPeeks >= 1
    /\ readPos > writePos
    /\ writePos > 0
    /\ peekPtr = readPos
    /\ bytesAvailable = endOfWrittenSpace - readPos
    /\ bytesAvailable > 0
    /\ bytesReadable = bytesAvailable + writePos

\* C33 as stated: in every reachable state of SignalPoll, readPos = writePos
\* implies bytesReadable = 0.
C33_Original ==
    (sut = "SignalPoll" /\ readPos = writePos) => bytesReadable = 0

----------------------------------------------------------------------------
(* C34: the spin lock of BasicSpinLock *)

SpinLiveInit == Init /\ sut = "BasicSpinLock"

\* runTest on one shared BasicSpinLock: a thread that is past the spin loop
\* keeps running until it returns, and a thread in the spin loop keeps
\* testing the flag.
SpinLiveSpec ==
    /\ SpinLiveInit
    /\ [][SpinNext]_vars
    /\ WF_vars(SpinCritical)
    /\ WF_vars(\E t \in SpinThreads : SpinAcquire(t))

\* The threads between a test_and_set that returned false and the matching
\* lock.clear
Inside == {t \in SpinThreads : pcSpin[t] = "locked"}

\* C34: on a BasicSpinLock shared by several producers and one consumer, at
\* most one thread at a time is between its successful test_and_set and its
\* lock.clear; the flag is set exactly while a thread is there, so every
\* return path of push, peek and pop has cleared it; and a set flag is always
\* cleared again, so no thread spins on a flag that stays set for ever.
C34_LockHeldByOne ==
    /\ [](sut = "BasicSpinLock" =>
            /\ Cardinality(Inside) <= 1
            /\ lock <=> Inside # {})
    /\ ((sut = "BasicSpinLock" /\ lock) ~> ~lock)

\* Both producers and the consumer are in an operation at once, one of them
\* past the spin loop and the other two in it, after a push that returned
\* false from the roll-over branch with the reader at offset 0.
C34_Witness ==
    /\ sut = "BasicSpinLock"
    /\ lock
    /\ pcSpin["pusher0"] = "locked"
    /\ pcSpin["pusher1"] = "spinning"
    /\ pcSpin["consumer"] = "spinning"
    /\ ~pushed
    /\ bytesPushed > 0
    /\ readPos = 0
    /\ endOfWrittenSpace = writePos
    /\ STAGING_BUFFER_SIZE - writePos < datumLen

----------------------------------------------------------------------------
(* C35: StdDeque as a queue of the pushed elements *)

DequePeeks == sut = "StdDeque" /\ quietPeeks' > quietPeeks

DequePops == sut = "StdDeque" /\ numPops' > numPops

\* C35 as stated: the bytes peek reports are bytesPerLog times the number of
\* completed pushes less the number of completed pops (0 for a new StdDeque),
\* and the element a pop removes is one a push appended: the oldest not yet
\* removed.
C35_Original ==
    [][/\ DequePeeks => bytesAvailable' = datumLen * (numPushes - numPops)
       /\ DequePops => Head(deque) = numPops + 1]_vars

====
